---- MODULE Spec2Model ----
(***************************************************************************)
(* A model of vidseq (src/src/lib.rs): a VideoSequence positioned over a   *)
(* decode pipeline, the seek / step dispatch of get_frame, the blocking    *)
(* wait on the pipeline's bus, and the conversion of a sample to an image. *)
(* Spec follows a VideoSequence after open; SpecOpen follows open itself,  *)
(* step by step, up to the drop of what it built; SpecConvert, SpecFrames  *)
(* and SpecOnce follow the conversion, the frame count and GST_INIT.       *)
(*                                                                         *)
(* Time is counted in nanoseconds for stream positions and in seconds for  *)
(* the wall clock of a wait.  The pipeline, its bus and its sink are the   *)
(* program's environment: they act on their own threads, so their actions  *)
(* interleave with the caller's.                                           *)
(***************************************************************************)
EXTENDS Integers, Sequences, FiniteSets, TLC

\* ------------------------------------------------------------------ bounds
MaxPerFrame == 2      \* per_frame ranges over 1..MaxPerFrame nanoseconds
MaxDuration == 2      \* stream duration ranges over 0..MaxDuration nanoseconds
MaxIndex == 3         \* get_frame is called with an index in 0..MaxIndex
MaxCalls == 3         \* number of get_frame calls on one VideoSequence
MaxBus == 2           \* messages the bus holds at one time
MaxDim == 2           \* a sample's width and height range over -1..MaxDim
MaxBytes == 13        \* a sample's buffer holds 0..MaxBytes bytes
MaxStreamNs == 12     \* open sees a stream duration in 0..MaxStreamNs nanoseconds
MaxFrameNs == 5       \* open computes a per_frame in 0..MaxFrameNs nanoseconds
NThreads == 3         \* threads that call open or assume_gst_init
MaxPosted == 3        \* messages the pipeline posts while one open runs

\* ------------------------------------------------------- program constants
MAX_DELTA == 1        \* const MAX_DELTA: u64 = 1
TIMEOUT == 10         \* Duration::from_secs(10)

VARIABLES
    per_frame,        \* VideoSequence.per_frame (ns)
    frames,           \* VideoSequence.frames
    current_index,    \* VideoSequence.current_index
    duration,         \* the stream's duration, as query_duration reported it (ns)
    position,         \* the position the pipeline actually holds (ns)
    pending,          \* the command the pipeline is still carrying out
    bus,              \* the pipeline's bus: messages not yet popped
    sink,             \* the preroll sample the appsink holds
    pc,               \* where the caller is: "idle", "wait", "pull"
    waited,           \* seconds the current timed_pop has been blocked
    elapsed,          \* seconds blocked since wait_async_done was entered
    callNo,           \* number of get_frame calls made so far
    call,             \* what the current (or last) get_frame call did
    prev,             \* what the call before it did
    clean,            \* no wait on this instance has ended in a timeout or an error
    sample,           \* the sample handed to convert_sample_to_image
    image,            \* what convert_sample_to_image returned for it
    once,             \* GST_INIT: "incomplete", "running", "complete", "poisoned"
    initRuns,         \* number of times gstreamer::init has been run
    thread,           \* where each thread of the process is
    assumedFirst,     \* assume_gst_init returned before any open was called
    lenOut,           \* what len() returned to the caller since its last get_frame
    atOpen,           \* per_frame and frames as open set them
    steps,            \* the steps open has carried out, in order
    outcome,          \* what open returned: "none", "Ok", an error, "panic"
    nullSets,         \* number of set_state(Null) calls made on the pipeline
    lateOps,          \* a pipeline or sink operation was issued after set_state(Null)
    answer,           \* what the pipeline answered to set_state(Paused)
    reads,            \* timed_pop calls made by the running adapter call
    posted,           \* every message the pipeline has posted on the bus, in order
    popped,           \* every message timed_pop has yielded, in order
    waitFrom,         \* Len(popped) when the running wait_async_done was entered
    waitRes,          \* what the last wait_async_done returned
    setRes            \* what set_state_with_timeout returned

seqVars == <<per_frame, frames, current_index, duration, position, pending, bus,
             sink, pc, waited, elapsed, callNo, call, prev, clean>>

convVars == <<sample, image>>

onceVars == <<once, initRuns, thread, assumedFirst>>

lenVars == <<lenOut, atOpen>>

openVars == <<steps, outcome, nullSets, lateOps, answer, reads, posted, popped,
              waitFrom, waitRes, setRes>>

vars == <<seqVars, convVars, onceVars, lenVars, openVars>>

\* ------------------------------------------------------------ samples
\* A gstreamer::Sample as convert_sample_to_image reads it.
Sample(caps, buffer, copyOk, structure, hasW, hasH, hasF, width, height, format, size) ==
    [caps |-> caps, buffer |-> buffer, copyOk |-> copyOk, structure |-> structure,
     hasW |-> hasW, hasH |-> hasH, hasF |-> hasF,
     width |-> width, height |-> height, format |-> format, size |-> size]

Failure(kind) == [kind |-> kind, width |-> 0, height |-> 0, bytes |-> 0]

\* image_buffer_len(width, height) <= len, as RgbImage::from_raw checks it on the
\* dimensions cast to u32: a zero dimension needs no bytes, and a negative i32
\* becomes a dimension of at least 2^31, which needs more bytes than any buffer
\* modelled here holds.
\* from_raw demanding a buffer of exactly the image's size.
ImageFitsExactly(width, height, len) ==
    IF width < 0 \/ height < 0 THEN FALSE ELSE 3 * width * height = len

ImageFits(width, height, len) ==
    IF width = 0 \/ height = 0 THEN TRUE
    ELSE IF width < 0 \/ height < 0 THEN FALSE
    ELSE 3 * width * height <= len

FromRaw(width, height, len) ==
    IF ImageFits(width, height, len)
    THEN [kind |-> "Image", width |-> width, height |-> height, bytes |-> len]
    ELSE Failure("BufferSizeMismatch")

\* The conversion without its format check.
FormatIsAnything(format) == TRUE

FormatIsRGB(format) == format = "RGB"

convert_sample_to_image(s) ==
    IF ~s.caps THEN Failure("MissingCaps")
    ELSE IF ~s.buffer THEN Failure("MissingBuffer")
    ELSE IF ~s.copyOk THEN Failure("BufferCopyIncomplete")
    ELSE IF ~s.structure THEN Failure("Panic")
    ELSE IF ~s.hasW \/ ~s.hasH \/ ~s.hasF THEN Failure("MissingField")
    ELSE IF ~FormatIsRGB(s.format) THEN Failure("UnexpectedFormat")
    ELSE FromRaw(s.width, s.height, s.size)

\* ------------------------------------------------------------ open
\* The frame count rounded up instead of down.
FrameCountRoundsUp(dur, pf) == (dur + pf - 1) \div pf

\* frames = (duration.as_nanos() / per_frame.as_nanos()) as u64: the quotient of a
\* ClockTime by at least 1 ns fits a u64, so the cast changes nothing.
FrameCount(dur, pf) == dur \div pf

\* ------------------------------------------------------------ GST_INIT
\* A check-then-act flag in place of the Once: a caller that finds the
\* initialization running does not wait for it.
OnceEnterWithoutWaiting(state) ==
    CASE state = "incomplete" -> "run"
      [] state = "running" -> "skip"
      [] state = "complete" -> "skip"
      [] state = "poisoned" -> "panic"

\* What Once::call_once does with its closure, by the state it finds the Once in.
OnceEnter(state) ==
    CASE state = "incomplete" -> "run"
      [] state = "running" -> "wait"
      [] state = "complete" -> "skip"
      [] state = "poisoned" -> "panic"

\* ------------------------------------------------------------ seek / step
\* per_frame.mul_f64(n as f64).try_into::<ClockTime>(): the product in whole
\* nanoseconds.  For the values modelled the f64 product is off by far less than
\* half a nanosecond and fits a ClockTime, so the conversion yields per_frame * n.
ToClockTime(pf, n) == pf * n

\* seek with the threshold off by one: a delta of MAX_DELTA no longer steps.
SeekBranchSeeksAdjacent(index, cur) ==
    IF index < cur THEN "raw_seek"
    ELSE IF index > cur
         THEN IF index - cur >= MAX_DELTA THEN "raw_seek" ELSE "step"
         ELSE "noop"

\* seek without its no-op branch: an index equal to the cursor is sought again.
SeekBranchReseeksCurrent(index, cur) ==
    IF index <= cur THEN "raw_seek"
    ELSE IF index - cur > MAX_DELTA THEN "raw_seek" ELSE "step"

\* seek with a threshold of 2: a delta of MAX_DELTA + 1 is still stepped.
SeekBranchStepsTwo(index, cur) ==
    IF index < cur THEN "raw_seek"
    ELSE IF index > cur
         THEN IF index - cur > MAX_DELTA + 1 THEN "raw_seek" ELSE "step"
         ELSE "noop"

\* The branch seek(index) takes.
SeekBranch(index, cur) ==
    IF index < cur THEN "raw_seek"
    ELSE IF index > cur
         THEN IF index - cur > MAX_DELTA THEN "raw_seek" ELSE "step"
         ELSE "noop"

\* raw_seek refusing the index `frames` itself.
RawSeekOutOfRangeAtEnd(index, nframes) == index >= nframes

\* raw_seek's range check.
RawSeekOutOfRange(index, nframes) == index > nframes

\* step has no range check of its own; a count of 0 returns at once.
StepIsNoop(count) == count = 0

\* raw_seek forgetting to move the cursor.
RawSeekCursorKeeps(cur, index) == cur

\* current_index after raw_seek(index) and after step(count) have waited.
RawSeekCursor(cur, index) == index

\* step forgetting to advance the cursor.
StepCursorForgets(cur, count) == cur

StepCursor(cur, count) == cur + count

\* len counting the index `frames`, which raw_seek accepts, as one more frame.
lenCountsLastIndex(self_frames) == self_frames + 1

\* len(&self)
len(self_frames) == self_frames

\* wait_async_done giving up its wait on any message at all.
WaitVerdictFirstMessageEnds(type) ==
    CASE type = "AsyncDone" -> "Ok"
      [] type = "Error" -> "Err"
      [] OTHER -> "Ok"

\* wait_async_done's match on the message timed_pop yielded: return Ok, return
\* the error, or go round the loop again.
WaitVerdict(type) ==
    CASE type = "AsyncDone" -> "Ok"
      [] type = "Error" -> "Err"
      [] OTHER -> "Continue"

\* get_frame without its buffer test: a sample without a buffer goes to the
\* conversion, which fails on it.
PullOutcomeNoBufferTest(sk) ==
    IF ~sk.present
    THEN [result |-> "PullFailed", gotSample |-> FALSE, hadBuffer |-> FALSE, converted |-> FALSE]
    ELSE [result |-> convert_sample_to_image(sk.sample).kind, gotSample |-> TRUE,
          hadBuffer |-> sk.sample.buffer, converted |-> TRUE]

\* get_frame after its seek returned Ok: the pull, the buffer test, the conversion.
\* sk is what the sink holds; the answer names the outcome and what was run.
PullOutcome(sk) ==
    IF ~sk.present
    THEN [result |-> "PullFailed", gotSample |-> FALSE, hadBuffer |-> FALSE, converted |-> FALSE]
    ELSE IF ~sk.sample.buffer
    THEN [result |-> "Empty", gotSample |-> TRUE, hadBuffer |-> FALSE, converted |-> FALSE]
    ELSE [result |-> convert_sample_to_image(sk.sample).kind, gotSample |-> TRUE,
          hadBuffer |-> TRUE, converted |-> TRUE]

\* ------------------------------------------------------------ the environment
NoCommand == [op |-> "none", arg |-> 0, cmd |-> 0]

\* What the stream can put into the sink: a 1x1 RGB frame, a sample that carries
\* no buffer, a frame of another format, or nothing to pull.
RgbFrame == Sample(TRUE, TRUE, TRUE, TRUE, TRUE, TRUE, TRUE, 1, 1, "RGB", 3)
NoBufferSample == Sample(TRUE, FALSE, TRUE, TRUE, TRUE, TRUE, TRUE, 1, 1, "RGB", 0)
BgrFrame == Sample(TRUE, TRUE, TRUE, TRUE, TRUE, TRUE, TRUE, 1, 1, "BGR", 3)

SinkStates ==
    {[present |-> TRUE, sample |-> s] : s \in {RgbFrame, NoBufferSample, BgrFrame}}
    \cup {[present |-> FALSE, sample |-> NoBufferSample]}

Message(type, cmd) == [type |-> type, cmd |-> cmd]

\* ------------------------------------------------------------ bookkeeping
\* What a get_frame call did; history only, read by no action's guard.
NoCall == [index |-> 0, before |-> 0, branch |-> "none", count |-> 0,
           nStep |-> 0, nSeek |-> 0, nWait |-> 0, ownDone |-> FALSE,
           seekRes |-> "none", pulled |-> FALSE, gotSample |-> FALSE,
           hadBuffer |-> FALSE, converted |-> FALSE, result |-> "none",
           inSync |-> FALSE, seekTo |-> 0]

\* What is kept of the call before the current one.
Summary(c) == [index |-> c.index, result |-> c.result]

NoImage == Failure("none")

\* The variables of the conversion and of the process-wide initialization, while
\* a specification does not follow them.
ConvIdle == sample = NoBufferSample /\ image = NoImage

OnceIdle ==
    /\ once = "complete"
    /\ initRuns = 0
    /\ thread = <<>>
    /\ assumedFirst = FALSE

\* len has not been called since the caller's last get_frame.
NoLen == [called |-> FALSE, value |-> 0]

\* The variables of open and of its adapter calls, while a specification does not
\* follow them.
NoWait == [of |-> "none", result |-> "none"]

OpenRestIdle ==
    /\ steps = <<>>
    /\ outcome = "none"
    /\ nullSets = 0
    /\ lateOps = FALSE
    /\ answer = "none"
    /\ reads = 0
    /\ posted = <<>>
    /\ popped = <<>>
    /\ waitFrom = 0
    /\ waitRes = NoWait
    /\ setRes = "none"

OpenIdle ==
    /\ lenOut = NoLen
    /\ atOpen = [per_frame |-> per_frame, frames |-> frames]
    /\ OpenRestIdle

InitSeq ==
    /\ per_frame \in 1..MaxPerFrame
    /\ duration \in 0..MaxDuration
    /\ frames = FrameCount(duration, per_frame)
    /\ current_index = 0
    /\ position = 0
    /\ pending = NoCommand
    /\ bus = <<>>
    /\ sink \in {k \in SinkStates : k.present}
    /\ pc = "idle"
    /\ waited = 0
    /\ elapsed = 0
    /\ callNo = 0
    /\ call = NoCall
    /\ prev = Summary(NoCall)
    /\ clean = TRUE
    /\ ConvIdle
    /\ OnceIdle
    /\ OpenIdle

\* get_frame dropping the `?` on seek: a call whose seek failed goes on to pull.
ReturnOnlyAfterPull(c, res) ==
    /\ call' = [c EXCEPT !.result = res,
                         !.inSync = (position = ToClockTime(per_frame, current_index))]
    /\ pc' = IF c.pulled THEN "idle" ELSE "pull"

\* A get_frame call returns to its caller with `res`.
Return(c, res) ==
    /\ call' = [c EXCEPT !.result = res,
                         !.inSync = (position = ToClockTime(per_frame, current_index))]
    /\ pc' = "idle"

\* get_frame(index) up to the point where seek has issued its command: seek's
\* dispatch, raw_seek's range check and seek command, step's step event.  seek
\* calls step with a count of at least 1, so step's early return for a count of 0
\* is never taken from here.  A command the pipeline accepts replaces the one it
\* was still carrying out.
GetFrame(index) ==
    /\ pc = "idle"
    /\ callNo < MaxCalls
    /\ callNo' = callNo + 1
    /\ prev' = Summary(call)
    /\ waited' = 0
    /\ elapsed' = 0
    /\ UNCHANGED <<per_frame, frames, current_index, duration, position, bus, sink, clean>>
    /\ LET br == SeekBranch(index, current_index)
           c0 == [NoCall EXCEPT !.index = index, !.before = current_index, !.branch = br]
       IN  \/ /\ br = "noop"
              /\ call' = [c0 EXCEPT !.seekRes = "ok"]
              /\ pc' = "pull"
              /\ UNCHANGED pending
           \/ /\ br = "raw_seek"
              /\ RawSeekOutOfRange(index, frames)
              /\ Return([c0 EXCEPT !.seekRes = "IndexOutOfRange"], "IndexOutOfRange")
              /\ UNCHANGED pending
           \/ /\ br = "raw_seek"
              /\ ~RawSeekOutOfRange(index, frames)
              /\ \E handled \in BOOLEAN :
                    IF handled
                    THEN /\ pending' = [op |-> "seek", arg |-> ToClockTime(per_frame, index),
                                        cmd |-> callNo + 1]
                         /\ call' = [c0 EXCEPT !.nSeek = 1, !.nWait = 1,
                                               !.seekTo = ToClockTime(per_frame, index)]
                         /\ pc' = "wait"
                    ELSE /\ Return([c0 EXCEPT !.nSeek = 1, !.seekRes = "SeekRejected",
                                              !.seekTo = ToClockTime(per_frame, index)],
                                   "SeekRejected")
                         /\ UNCHANGED pending
           \/ /\ br = "step"
              /\ StepIsNoop(index - current_index)
              /\ call' = [c0 EXCEPT !.seekRes = "ok"]
              /\ pc' = "pull"
              /\ UNCHANGED pending
           \/ /\ br = "step"
              /\ ~StepIsNoop(index - current_index)
              /\ \E handled \in BOOLEAN :
                    LET c1 == [c0 EXCEPT !.count = index - current_index, !.nStep = 1] IN
                    IF handled
                    THEN /\ pending' = [op |-> "step",
                                        arg |-> ToClockTime(per_frame, index - current_index),
                                        cmd |-> callNo + 1]
                         /\ call' = [c1 EXCEPT !.nWait = 1]
                         /\ pc' = "wait"
                    ELSE /\ Return([c1 EXCEPT !.seekRes = "StepRejected"],
                                   "StepRejected")
                         /\ UNCHANGED pending
    /\ lenOut' = NoLen
    /\ UNCHANGED <<convVars, onceVars, atOpen, openVars>>

\* One turn of wait_async_done's loop in which timed_pop yields a message.
WaitPop ==
    /\ pc = "wait"
    /\ bus # <<>>
    /\ bus' = Tail(bus)
    /\ UNCHANGED <<per_frame, frames, duration, position, pending, sink, callNo, prev>>
    /\ LET msg == Head(bus) IN
       \/ /\ WaitVerdict(msg.type) = "Ok"
          /\ current_index' = IF call.branch = "raw_seek"
                               THEN RawSeekCursor(current_index, call.index)
                               ELSE StepCursor(current_index, call.count)
          /\ call' = [call EXCEPT !.seekRes = "ok", !.ownDone = (msg.cmd = callNo)]
          /\ pc' = "pull"
          /\ UNCHANGED <<waited, elapsed, clean>>
       \/ /\ WaitVerdict(msg.type) = "Err"
          /\ Return([call EXCEPT !.seekRes = "PipelineError"], "PipelineError")
          /\ clean' = FALSE
          /\ UNCHANGED <<current_index, waited, elapsed>>
       \/ /\ WaitVerdict(msg.type) = "Continue"
          /\ waited' = 0
          /\ UNCHANGED <<current_index, call, pc, elapsed, clean>>
    /\ UNCHANGED <<convVars, onceVars, lenVars, openVars>>

\* timed_pop yields nothing within the timeout.
WaitTimeout ==
    /\ pc = "wait"
    /\ bus = <<>>
    /\ waited = TIMEOUT
    /\ Return([call EXCEPT !.seekRes = "Timeout"], "Timeout")
    /\ clean' = FALSE
    /\ UNCHANGED <<per_frame, frames, current_index, duration, position, pending, bus,
                   sink, waited, elapsed, callNo, prev>>
    /\ UNCHANGED <<convVars, onceVars, lenVars, openVars>>

\* A second passes while timed_pop is blocked on an empty bus.
Tick ==
    /\ pc = "wait"
    /\ bus = <<>>
    /\ waited < TIMEOUT
    /\ waited' = waited + 1
    /\ elapsed' = IF elapsed < TIMEOUT + 1 THEN elapsed + 1 ELSE elapsed
    /\ UNCHANGED <<per_frame, frames, current_index, duration, position, pending, bus,
                   sink, pc, callNo, call, prev, clean>>
    /\ UNCHANGED <<convVars, onceVars, lenVars, openVars>>

\* get_frame after seek returned Ok.
Pull ==
    /\ pc = "pull"
    /\ LET o == PullOutcome(sink) IN
       Return([call EXCEPT !.pulled = TRUE, !.gotSample = o.gotSample,
                           !.hadBuffer = o.hadBuffer, !.converted = o.converted],
              o.result)
    /\ UNCHANGED <<per_frame, frames, current_index, duration, position, pending, bus,
                   sink, waited, elapsed, callNo, prev, clean>>
    /\ UNCHANGED <<convVars, onceVars, lenVars, openVars>>

\* len() called between two get_frame calls: it reads frames and writes nothing
\* of the VideoSequence.
CallLen ==
    /\ pc = "idle"
    /\ ~lenOut.called
    /\ lenOut' = [called |-> TRUE, value |-> len(frames)]
    /\ UNCHANGED <<seqVars, convVars, onceVars, atOpen, openVars>>

\* The pipeline is followed for as long as a get_frame call can still observe it.
Observed == pc # "idle" \/ callNo < MaxCalls

\* The pipeline finishes the command it carries: it takes the new position (never
\* past the end of the stream), prerolls a sample there and posts ASYNC_DONE.
PipelineComplete ==
    /\ pending.op # "none"
    /\ Observed
    /\ Len(bus) < MaxBus
    /\ position' = LET target == IF pending.op = "seek"
                                  THEN pending.arg
                                  ELSE position + pending.arg
                    IN  IF target < duration THEN target ELSE duration
    /\ sink' \in SinkStates
    /\ bus' = Append(bus, Message("AsyncDone", pending.cmd))
    /\ pending' = NoCommand
    /\ UNCHANGED <<per_frame, frames, current_index, duration, pc, waited, elapsed,
                   callNo, call, prev, clean>>
    /\ UNCHANGED <<convVars, onceVars, lenVars, openVars>>

\* The pipeline posts an error; the command it carries is dropped or goes on.
\* Messages are read by nothing but a wait's timed_pop, so a message posted while
\* the caller is elsewhere is posted here once the caller waits.
PipelineError ==
    /\ pc = "wait"
    /\ Len(bus) < MaxBus
    /\ bus' = Append(bus, Message("Error", 0))
    /\ \E dropped \in BOOLEAN : pending' = IF dropped THEN NoCommand ELSE pending
    /\ UNCHANGED <<per_frame, frames, current_index, duration, position, sink, pc,
                   waited, elapsed, callNo, call, prev, clean>>
    /\ UNCHANGED <<convVars, onceVars, lenVars, openVars>>

\* The pipeline posts a message that is neither ASYNC_DONE nor an error.
PipelineOther ==
    /\ pc = "wait"
    /\ Len(bus) < MaxBus
    /\ bus' = Append(bus, Message("Other", 0))
    /\ UNCHANGED <<per_frame, frames, current_index, duration, position, pending, sink,
                   pc, waited, elapsed, callNo, call, prev, clean>>
    /\ UNCHANGED <<convVars, onceVars, lenVars, openVars>>

Next ==
    \/ \E index \in 0..MaxIndex : GetFrame(index)
    \/ WaitPop
    \/ WaitTimeout
    \/ Tick
    \/ Pull
    \/ CallLen
    \/ PipelineComplete
    \/ PipelineError
    \/ PipelineOther

Spec == InitSeq /\ [][Next]_vars

\* ------------------------------------------------------------ conversion alone
\* The VideoSequence's variables while a specification does not follow them.
SeqRestIdle ==
    /\ current_index = 0
    /\ position = 0
    /\ pending = NoCommand
    /\ bus = <<>>
    /\ sink = [present |-> FALSE, sample |-> NoBufferSample]
    /\ waited = 0
    /\ elapsed = 0
    /\ callNo = 0
    /\ call = NoCall
    /\ prev = Summary(NoCall)
    /\ clean = TRUE

SeqIdle ==
    /\ per_frame = 1
    /\ frames = 0
    /\ duration = 0
    /\ pc = "none"
    /\ SeqRestIdle

Formats == {"RGB", "BGR"}

Samples ==
    {Sample(c, b, k, st, w, h, f, width, height, format, size) :
        c \in BOOLEAN, b \in BOOLEAN, k \in BOOLEAN, st \in BOOLEAN,
        w \in BOOLEAN, h \in BOOLEAN, f \in BOOLEAN,
        width \in -1..MaxDim, height \in -1..MaxDim,
        format \in Formats, size \in 0..MaxBytes}

InitConvert ==
    /\ sample \in Samples
    /\ image = NoImage
    /\ SeqIdle
    /\ OnceIdle
    /\ OpenIdle

\* convert_sample_to_image(sample)
Convert ==
    /\ image.kind = "none"
    /\ image' = convert_sample_to_image(sample)
    /\ UNCHANGED <<sample, seqVars, onceVars, lenVars, openVars>>

NextConvert == Convert

SpecConvert == InitConvert /\ [][NextConvert]_vars

\* ------------------------------------------------------------ open's frame count
InitFrames ==
    /\ duration \in 0..MaxStreamNs
    /\ per_frame \in 0..MaxFrameNs
    /\ frames = 0
    /\ pc = "open_frames"
    /\ SeqRestIdle
    /\ ConvIdle
    /\ OnceIdle
    /\ OpenIdle

\* open computing frames from the duration queried and the per_frame derived from
\* the caps' framerate; a per_frame of 0 ns divides by zero and panics.
OpenFrames ==
    /\ pc = "open_frames"
    /\ IF per_frame = 0
       THEN pc' = "panic" /\ frames' = frames
       ELSE pc' = "opened" /\ frames' = FrameCount(duration, per_frame)
    /\ UNCHANGED <<per_frame, current_index, duration, position, pending, bus, sink,
                   waited, elapsed, callNo, call, prev, clean, convVars, onceVars,
                   lenVars, openVars>>

NextFrames == OpenFrames

SpecFrames == InitFrames /\ [][NextFrames]_vars

\* ------------------------------------------------------------ GST_INIT, threads
Threads == 1..NThreads

OpenStarted(th) ==
    \E u \in Threads :
        th[u] \in {"check_init", "failed_path", "in_init", "make", "constructed",
                   "open_panicked"}

InitOnce ==
    /\ once = "incomplete"
    /\ initRuns = 0
    /\ thread = [t \in Threads |-> "ready"]
    /\ assumedFirst = FALSE
    /\ SeqIdle
    /\ ConvIdle
    /\ OpenIdle

\* open(path) up to check_or_init_gst: the path is canonicalized, or open returns
\* its error.
CallOpen(t) ==
    /\ thread[t] = "ready"
    /\ \E resolved \in BOOLEAN :
          thread' = [thread EXCEPT ![t] = IF resolved THEN "check_init" ELSE "failed_path"]
    /\ UNCHANGED <<once, initRuns, assumedFirst, seqVars, convVars, lenVars, openVars>>

\* check_or_init_gst entering GST_INIT.call_once; a caller that finds the Once
\* running is blocked and takes no step.
CheckOrInitGst(t) ==
    /\ thread[t] = "check_init"
    /\ LET e == OnceEnter(once) IN
       \/ /\ e = "run"
          /\ once' = "running"
          /\ thread' = [thread EXCEPT ![t] = "in_init"]
       \/ /\ e = "skip"
          /\ thread' = [thread EXCEPT ![t] = "make"]
          /\ UNCHANGED once
       \/ /\ e = "panic"
          /\ thread' = [thread EXCEPT ![t] = "open_panicked"]
          /\ UNCHANGED once
    /\ UNCHANGED <<initRuns, assumedFirst, seqVars, convVars, lenVars, openVars>>

\* The closure of check_or_init_gst: gstreamer::init().expect(..).
GstInit(t) ==
    /\ thread[t] = "in_init"
    /\ initRuns' = initRuns + 1
    /\ \E ok \in BOOLEAN :
          IF ok
          THEN once' = "complete" /\ thread' = [thread EXCEPT ![t] = "make"]
          ELSE once' = "poisoned" /\ thread' = [thread EXCEPT ![t] = "open_panicked"]
    /\ UNCHANGED <<assumedFirst, seqVars, convVars, lenVars, openVars>>

\* open going on to ElementFactory::make("playbin", None).
MakePipeline(t) ==
    /\ thread[t] = "make"
    /\ thread' = [thread EXCEPT ![t] = "constructed"]
    /\ UNCHANGED <<once, initRuns, assumedFirst, seqVars, convVars, lenVars, openVars>>

\* assume_gst_init entering GST_INIT.call_once.
CallAssume(t) ==
    /\ thread[t] \in {"ready", "assume"}
    /\ LET e == OnceEnter(once) IN
       \/ /\ e = "run"
          /\ once' = "running"
          /\ thread' = [thread EXCEPT ![t] = "in_assume"]
          /\ UNCHANGED assumedFirst
       \/ /\ e = "wait"
          /\ thread[t] = "ready"
          /\ thread' = [thread EXCEPT ![t] = "assume"]
          /\ UNCHANGED <<once, assumedFirst>>
       \/ /\ e = "skip"
          /\ thread' = [thread EXCEPT ![t] = "assumed"]
          /\ assumedFirst' = (assumedFirst \/ ~OpenStarted(thread))
          /\ UNCHANGED once
       \/ /\ e = "panic"
          /\ thread' = [thread EXCEPT ![t] = "assume_panicked"]
          /\ UNCHANGED <<once, assumedFirst>>
    /\ UNCHANGED <<initRuns, seqVars, convVars, lenVars, openVars>>

\* The empty closure of assume_gst_init.
AssumeClosure(t) ==
    /\ thread[t] = "in_assume"
    /\ once' = "complete"
    /\ thread' = [thread EXCEPT ![t] = "assumed"]
    /\ assumedFirst' = (assumedFirst \/ ~OpenStarted(thread))
    /\ UNCHANGED <<initRuns, seqVars, convVars, lenVars, openVars>>

NextOnce ==
    \E t \in Threads :
        \/ CallOpen(t)
        \/ CheckOrInitGst(t)
        \/ GstInit(t)
        \/ MakePipeline(t)
        \/ CallAssume(t)
        \/ AssumeClosure(t)

SpecOnce == InitOnce /\ [][NextOnce]_vars

\* ------------------------------------------------------------ open, start to end
\* The steps of open, in the order of its source.
OpenOrder ==
    <<"resolve", "init", "make", "configure", "set_state", "pull_preroll",
      "framerate", "query_duration", "raw_seek">>

\* open leaving out the duration query: it seeks right after the frame rate.
AfterStepSkipsDuration(step) ==
    CASE step = "resolve" -> "init"
      [] step = "init" -> "make"
      [] step = "make" -> "configure"
      [] step = "configure" -> "set_state"
      [] step = "set_state" -> "pull_preroll"
      [] step = "pull_preroll" -> "framerate"
      [] step = "framerate" -> "raw_seek"
      [] step = "query_duration" -> "raw_seek"
      [] step = "raw_seek" -> "opened"

\* Where open goes on once a step has succeeded.
AfterStep(step) ==
    CASE step = "resolve" -> "init"
      [] step = "init" -> "make"
      [] step = "make" -> "configure"
      [] step = "configure" -> "set_state"
      [] step = "set_state" -> "pull_preroll"
      [] step = "pull_preroll" -> "framerate"
      [] step = "framerate" -> "query_duration"
      [] step = "query_duration" -> "raw_seek"
      [] step = "raw_seek" -> "opened"

\* set_state_with_timeout waiting for ASYNC_DONE after a synchronous success too.
SetStateOutcomeAlwaysWaits(a) ==
    CASE a = "Success" -> "wait"
      [] a = "Async" -> "wait"
      [] a = "NoPreroll" -> "UnsupportedSource"
      [] a = "Failure" -> "StateChangeError"

\* set_state_with_timeout's match on the pipeline's answer; a failed request
\* leaves through the `?`.
SetStateOutcome(a) ==
    CASE a = "Success" -> "Ok"
      [] a = "Async" -> "wait"
      [] a = "NoPreroll" -> "UnsupportedSource"
      [] a = "Failure" -> "StateChangeError"

\* A VideoSequenceInner without its Drop: nothing stops the pipeline.
ScopeExitNeverStops(built) == FALSE

\* Whether leaving open's scope runs Drop for VideoSequenceInner: only a
\* VideoSequenceInner that has been built is dropped; before that the pipeline is
\* a plain element, released without a state change.
ScopeExitStops(built) == built

\* The variables open and its adapter calls never touch.
notOpenVars == <<elapsed, callNo, call, prev, clean, convVars, thread, assumedFirst, lenOut>>

streamVars == <<duration, position, pending, bus, sink, posted>>

metaVars == <<per_frame, frames, current_index, atOpen>>

adapterVars == <<waited, answer, reads, popped, waitFrom, waitRes, setRes>>

exitVars == <<outcome, nullSets, lateOps>>

InitOpen ==
    /\ pc = "resolve"
    /\ once \in {"incomplete", "complete", "poisoned"}
    /\ initRuns = 0
    /\ thread = <<>>
    /\ assumedFirst = FALSE
    /\ duration \in 0..MaxDuration
    /\ per_frame = 1
    /\ frames = 0
    /\ SeqRestIdle
    /\ ConvIdle
    /\ lenOut = NoLen
    /\ atOpen = [per_frame |-> per_frame, frames |-> frames]
    /\ OpenRestIdle

\* open carries out `step`.
Did(step) == steps' = Append(steps, step)

\* A pipeline or sink operation is issued.
PipelineOp == lateOps' = (lateOps \/ nullSets > 0)

\* open returns Err(err).  A VideoSequenceInner that has been built goes out of
\* scope: its Drop sets the pipeline to Null, and the unwrap there panics should
\* that request fail.
OpenFails(err, built) ==
    /\ outcome' = err
    /\ IF ScopeExitStops(built)
       THEN /\ nullSets' = nullSets + 1
            /\ PipelineOp
            /\ pc' \in {"failed", "drop_panicked"}
       ELSE /\ pc' = "failed"
            /\ UNCHANGED <<nullSets, lateOps>>

\* open panics.  Whether the panic unwinds, and so runs the Drop, is the build's
\* choice of panic strategy.
OpenPanics(built) ==
    /\ outcome' = "panic"
    /\ pc' = "panicked"
    /\ \E unwinds \in BOOLEAN :
          IF unwinds /\ ScopeExitStops(built)
          THEN nullSets' = nullSets + 1 /\ PipelineOp
          ELSE UNCHANGED <<nullSets, lateOps>>

\* path.canonicalize()?.to_str().ok_or(..)?
OpenResolve ==
    /\ pc = "resolve"
    /\ Did("resolve")
    /\ \E resolved \in BOOLEAN :
          IF resolved
          THEN pc' = AfterStep("resolve") /\ UNCHANGED exitVars
          ELSE OpenFails("InvalidPath", FALSE)
    /\ UNCHANGED <<once, initRuns, streamVars, metaVars, adapterVars, notOpenVars>>

\* check_or_init_gst(): one thread, so the Once is never found running.
OpenInit ==
    /\ pc = "init"
    /\ Did("init")
    /\ LET e == OnceEnter(once) IN
       \/ /\ e = "run"
          /\ initRuns' = initRuns + 1
          /\ \E ok \in BOOLEAN :
                IF ok
                THEN /\ once' = "complete"
                     /\ pc' = AfterStep("init")
                     /\ UNCHANGED exitVars
                ELSE /\ once' = "poisoned"
                     /\ OpenPanics(FALSE)
       \/ /\ e = "skip"
          /\ pc' = AfterStep("init")
          /\ UNCHANGED <<once, initRuns, exitVars>>
       \/ /\ e = "panic"
          /\ OpenPanics(FALSE)
          /\ UNCHANGED <<once, initRuns>>
    /\ UNCHANGED <<streamVars, metaVars, adapterVars, notOpenVars>>

\* ElementFactory::make("playbin", None)?
OpenMake ==
    /\ pc = "make"
    /\ Did("make")
    /\ \E made \in BOOLEAN :
          IF made
          THEN pc' = AfterStep("make") /\ UNCHANGED <<outcome, nullSets>> /\ PipelineOp
          ELSE OpenFails("MakeFailed", FALSE)
    /\ UNCHANGED <<once, initRuns, streamVars, metaVars, adapterVars, notOpenVars>>

\* The pipeline's properties, the fakesink and the appsink, up to the building of
\* the VideoSequenceInner.  A failure here returns with the pipeline made but not
\* yet held by a VideoSequenceInner.
OpenConfigure ==
    /\ pc = "configure"
    /\ Did("configure")
    /\ \E r \in {"ok", "ConfigureFailed", "panic"} :
          CASE r = "ok" -> pc' = AfterStep("configure") /\ UNCHANGED <<outcome, nullSets>> /\ PipelineOp
            [] r = "ConfigureFailed" -> OpenFails("ConfigureFailed", FALSE)
            [] r = "panic" -> OpenPanics(FALSE)
    /\ UNCHANGED <<once, initRuns, streamVars, metaVars, adapterVars, notOpenVars>>

\* inner.set_state_with_timeout(State::Paused, 10 s) up to the pipeline's answer.
\* A pipeline that reaches Paused at once has prerolled what its sink will hold.
OpenSetState ==
    /\ pc = "set_state"
    /\ Did("set_state")
    /\ reads' = 0
    /\ waited' = 0
    /\ waitFrom' = Len(popped)
    /\ \E a \in {"Success", "Async", "NoPreroll", "Failure"} :
          /\ answer' = a
          /\ LET o == SetStateOutcome(a) IN
             CASE o = "Ok" ->
                    /\ setRes' = "Ok"
                    /\ pc' = AfterStep("set_state")
                    /\ sink' \in IF a = "Success" THEN SinkStates ELSE {sink}
                    /\ pending' = IF a = "Async"
                                  THEN [op |-> "state", arg |-> 0, cmd |-> 0]
                                  ELSE pending
                    /\ waitRes' = NoWait
                    /\ UNCHANGED <<outcome, nullSets>>
                    /\ PipelineOp
               [] o = "wait" ->
                    /\ setRes' = "none"
                    /\ pc' = "wait_paused"
                    /\ sink' \in IF a = "Success" THEN SinkStates ELSE {sink}
                    /\ pending' = IF a = "Async"
                                  THEN [op |-> "state", arg |-> 0, cmd |-> 0]
                                  ELSE pending
                    /\ waitRes' = [of |-> "set_state", result |-> "none"]
                    /\ UNCHANGED <<outcome, nullSets>>
                    /\ PipelineOp
               [] OTHER ->
                    /\ setRes' = o
                    /\ waitRes' = NoWait
                    /\ OpenFails(o, TRUE)
                    /\ UNCHANGED <<pending, sink>>
    /\ UNCHANGED <<once, initRuns, duration, position, bus, posted, popped, metaVars,
                   notOpenVars>>

\* wait_async_done returns Ok to set_state_with_timeout or to raw_seek(0); after
\* raw_seek(0), open returns the VideoSequence.
WaitReturnsOk ==
    IF pc = "wait_paused"
    THEN /\ setRes' = "Ok"
         /\ pc' = AfterStep("set_state")
         /\ UNCHANGED <<outcome, metaVars>>
    ELSE /\ current_index' = RawSeekCursor(current_index, 0)
         /\ outcome' = "Ok"
         /\ pc' = AfterStep("raw_seek")
         /\ atOpen' = [per_frame |-> per_frame, frames |-> frames]
         /\ UNCHANGED <<setRes, per_frame, frames>>

\* wait_async_done returns an error, which set_state_with_timeout and raw_seek
\* pass on and open returns.
WaitReturnsErr(err) ==
    /\ setRes' = IF pc = "wait_paused" THEN err ELSE setRes
    /\ OpenFails(err, TRUE)
    /\ UNCHANGED metaVars

\* One turn of wait_async_done's loop, within open, in which timed_pop yields a
\* message.
OpenWaitPop ==
    /\ pc \in {"wait_paused", "wait_seek"}
    /\ bus # <<>>
    /\ bus' = Tail(bus)
    /\ popped' = Append(popped, Head(bus))
    /\ reads' = IF pc = "wait_paused" THEN reads + 1 ELSE reads
    /\ LET v == WaitVerdict(Head(bus).type) IN
       CASE v = "Ok" ->
              /\ waitRes' = [waitRes EXCEPT !.result = "Ok"]
              /\ WaitReturnsOk
              /\ UNCHANGED <<nullSets, waited>>
              /\ PipelineOp
         [] v = "Err" ->
              /\ waitRes' = [waitRes EXCEPT !.result = "PipelineError"]
              /\ WaitReturnsErr("PipelineError")
              /\ UNCHANGED waited
         [] OTHER ->
              /\ waited' = 0
              /\ PipelineOp
              /\ UNCHANGED <<pc, waitRes, setRes, outcome, nullSets, metaVars>>
    /\ UNCHANGED <<steps, once, initRuns, duration, position, pending, sink, posted,
                   answer, waitFrom, notOpenVars>>

\* Within open, timed_pop yields nothing within the timeout.
OpenWaitTimeout ==
    /\ pc \in {"wait_paused", "wait_seek"}
    /\ bus = <<>>
    /\ waited = TIMEOUT
    /\ reads' = IF pc = "wait_paused" THEN reads + 1 ELSE reads
    /\ waitRes' = [waitRes EXCEPT !.result = "Timeout"]
    /\ WaitReturnsErr("Timeout")
    /\ UNCHANGED <<steps, once, initRuns, streamVars, waited, answer, popped, waitFrom,
                   notOpenVars>>

\* Within open, a second passes while timed_pop is blocked on an empty bus.
OpenTick ==
    /\ pc \in {"wait_paused", "wait_seek"}
    /\ bus = <<>>
    /\ waited < TIMEOUT
    /\ waited' = waited + 1
    /\ UNCHANGED <<pc, steps, once, initRuns, streamVars, metaVars, exitVars, answer,
                   reads, popped, waitFrom, waitRes, setRes, notOpenVars>>

\* inner.appsink.pull_preroll()?
OpenPullPreroll ==
    /\ pc = "pull_preroll"
    /\ Did("pull_preroll")
    /\ IF sink.present
       THEN pc' = AfterStep("pull_preroll") /\ UNCHANGED <<outcome, nullSets>> /\ PipelineOp
       ELSE OpenFails("PullFailed", TRUE)
    /\ UNCHANGED <<once, initRuns, streamVars, metaVars, adapterVars, notOpenVars>>

\* The sample's caps, their structure and its framerate, and per_frame from it.
\* Caps without a structure panic, and so does a frame rate whose per_frame is
\* not a finite Duration; a per_frame below 1 ns is 0 ns.
OpenFramerate ==
    /\ pc = "framerate"
    /\ Did("framerate")
    /\ \E r \in {"ok", "NoData", "UnknownFrameRate", "panic"} :
          CASE r = "ok" ->
                 /\ per_frame' \in 0..MaxPerFrame
                 /\ pc' = AfterStep("framerate")
                 /\ UNCHANGED exitVars
            [] r = "panic" -> OpenPanics(TRUE) /\ UNCHANGED per_frame
            [] OTHER -> OpenFails(r, TRUE) /\ UNCHANGED per_frame
    /\ UNCHANGED <<once, initRuns, streamVars, frames, current_index, atOpen,
                   adapterVars, notOpenVars>>

\* inner.pipeline.query_duration(), frames, and the VideoSequence with its cursor
\* at 0.  A per_frame of 0 ns divides by zero.
OpenQueryDuration ==
    /\ pc = "query_duration"
    /\ Did("query_duration")
    /\ \E known \in BOOLEAN :
          IF ~known
          THEN OpenFails("UnknownDuration", TRUE) /\ UNCHANGED <<frames, current_index>>
          ELSE IF per_frame = 0
          THEN OpenPanics(TRUE) /\ UNCHANGED <<frames, current_index>>
          ELSE /\ frames' = FrameCount(duration, per_frame)
               /\ current_index' = 0
               /\ pc' = AfterStep("query_duration")
               /\ UNCHANGED <<outcome, nullSets>>
               /\ PipelineOp
    /\ UNCHANGED <<once, initRuns, streamVars, per_frame, atOpen, adapterVars,
                   notOpenVars>>

\* s.raw_seek(0) up to its wait.
OpenRawSeek ==
    /\ pc = "raw_seek"
    /\ Did("raw_seek")
    /\ IF RawSeekOutOfRange(0, frames)
       THEN /\ OpenFails("IndexOutOfRange", TRUE)
            /\ UNCHANGED <<pending, waited, waitFrom, waitRes>>
       ELSE \E handled \in BOOLEAN :
               IF handled
               THEN /\ pending' = [op |-> "seek", arg |-> ToClockTime(per_frame, 0),
                                   cmd |-> 0]
                    /\ pc' = "wait_seek"
                    /\ waited' = 0
                    /\ waitFrom' = Len(popped)
                    /\ waitRes' = [of |-> "raw_seek", result |-> "none"]
                    /\ UNCHANGED <<outcome, nullSets>>
                    /\ PipelineOp
               ELSE /\ OpenFails("SeekRejected", TRUE)
                    /\ UNCHANGED <<pending, waited, waitFrom, waitRes>>
    /\ UNCHANGED <<once, initRuns, duration, position, bus, sink, posted, metaVars,
                   answer, reads, popped, setRes, notOpenVars>>

\* The VideoSequence open returned goes out of scope:
\* self.pipeline.set_state(State::Null).unwrap()
Drop ==
    /\ pc = "opened"
    /\ nullSets' = nullSets + 1
    /\ PipelineOp
    /\ pc' \in {"dropped", "drop_panicked"}
    /\ UNCHANGED <<steps, outcome, once, initRuns, streamVars, metaVars, adapterVars,
                   notOpenVars>>

\* The pipeline runs from set_state(Paused) until it is set to Null.
Running ==
    /\ pc \in {"wait_paused", "pull_preroll", "framerate", "query_duration",
                "raw_seek", "wait_seek", "opened"}
    /\ nullSets = 0

\* The pipeline finishes the state change or the seek it carries, prerolls a
\* sample and posts ASYNC_DONE.
OpenPipelineComplete ==
    /\ Running
    /\ pending.op # "none"
    /\ Len(bus) < MaxBus
    /\ Len(posted) < MaxPosted
    /\ position' = IF pending.op = "seek"
                    THEN (IF pending.arg < duration THEN pending.arg ELSE duration)
                    ELSE position
    /\ sink' \in SinkStates
    /\ bus' = Append(bus, Message("AsyncDone", pending.cmd))
    /\ posted' = Append(posted, Message("AsyncDone", pending.cmd))
    /\ pending' = NoCommand
    /\ UNCHANGED <<pc, steps, once, initRuns, duration, metaVars, adapterVars, exitVars,
                   notOpenVars>>

\* The pipeline posts an error, or a message that is neither ASYNC_DONE nor an
\* error; on an error the command it carries is dropped or goes on.
OpenPipelinePosts ==
    /\ Running
    /\ Len(bus) < MaxBus
    /\ Len(posted) < MaxPosted
    /\ \E type \in {"Error", "Other"} :
          /\ bus' = Append(bus, Message(type, 0))
          /\ posted' = Append(posted, Message(type, 0))
          /\ \E dropped \in BOOLEAN :
                pending' = IF type = "Error" /\ dropped THEN NoCommand ELSE pending
    /\ UNCHANGED <<pc, steps, once, initRuns, duration, position, sink, metaVars,
                   adapterVars, exitVars, notOpenVars>>

NextOpen ==
    \/ OpenResolve
    \/ OpenInit
    \/ OpenMake
    \/ OpenConfigure
    \/ OpenSetState
    \/ OpenWaitPop
    \/ OpenWaitTimeout
    \/ OpenTick
    \/ OpenPullPreroll
    \/ OpenFramerate
    \/ OpenQueryDuration
    \/ OpenRawSeek
    \/ Drop
    \/ OpenPipelineComplete
    \/ OpenPipelinePosts

SpecOpen == InitOpen /\ [][NextOpen]_vars

\* ------------------------------------------------------------ properties
Returned == callNo >= 1 /\ pc = "idle"

\* The outcomes of get_frame in which its seek returned Ok.
SeekSucceeded(result) ==
    result \notin {"none", "IndexOutOfRange", "SeekRejected", "StepRejected",
                   "PipelineError", "Timeout"}

\* C1: get_frame(index) with index > frames fails with IndexOutOfRange, issues no
\* step and no seek, and leaves current_index as it was.
C1_OutOfRangeRejected ==
    (callNo >= 1 /\ call.index > frames) =>
        /\ call.nStep = 0
        /\ call.nSeek = 0
        /\ current_index = call.before
        /\ (pc = "idle" => call.result = "IndexOutOfRange")

\* C2 as claimed, for the calls in range: whenever get_frame(index), index <= frames,
\* returns an image or Empty, the pipeline is at per_frame * current_index and the
\* ASYNC_DONE that ended its wait answers its own command, whatever came before.
C2_InSyncAfterAnyHistory ==
    (Returned /\ call.index <= frames /\ call.result \in {"Image", "Empty"}) =>
        /\ call.inSync
        /\ (call.nWait = 1 => call.ownDone)

\* C2 amended: the same, provided no wait on the instance has ended in a timeout
\* or an error message before.
C2_InSyncAfterCleanHistory ==
    (Returned /\ clean /\ call.index <= frames /\ call.result \in {"Image", "Empty"}) =>
        /\ call.inSync
        /\ (call.nWait = 1 => call.ownDone)

C2_Witness ==
    /\ Returned /\ clean /\ callNo >= 2
    /\ call.index <= frames /\ call.index > 0
    /\ call.result = "Image" /\ call.nStep = 1 /\ call.ownDone /\ call.inSync

\* C3 as claimed: after get_frame(k), get_frame(k+1) issues one step and no seek,
\* get_frame(k+d), d >= 2, one seek and no step, get_frame(k-j), j >= 1, one seek
\* and no step.
C3_DispatchAfterAnyCall ==
    callNo >= 2 =>
        /\ (call.index = prev.index + 1 => call.nStep = 1 /\ call.nSeek = 0)
        /\ (call.index >= prev.index + 2 => call.nSeek = 1 /\ call.nStep = 0)
        /\ (call.index < prev.index => call.nSeek = 1 /\ call.nStep = 0)

\* C3 amended: after a get_frame(k) whose seek succeeded, get_frame(k+1) issues one
\* step and no seek; get_frame(k+d), d >= 2, issues one seek and no step when
\* k+d <= frames and no command at all when k+d > frames; get_frame(k-j), j >= 1,
\* issues one seek and no step when k-j <= frames.
C3_DispatchAfterSuccessfulSeek ==
    (callNo >= 2 /\ SeekSucceeded(prev.result)) =>
        /\ (call.index = prev.index + 1 => call.nStep = 1 /\ call.nSeek = 0)
        /\ (call.index >= prev.index + 2 /\ call.index <= frames
                => call.nSeek = 1 /\ call.nStep = 0)
        /\ (call.index >= prev.index + 2 /\ call.index > frames
                => call.nSeek = 0 /\ call.nStep = 0)
        /\ (call.index < prev.index /\ call.index <= frames
                => call.nSeek = 1 /\ call.nStep = 0)

C3_Witness ==
    /\ callNo >= 2 /\ SeekSucceeded(prev.result)
    /\ call.index = prev.index + 1 /\ call.index <= frames
    /\ call.nStep = 1 /\ call.nSeek = 0 /\ Returned /\ call.result = "Image"

\* C4 as claimed: get_frame(index) called twice in a row returns the same outcome
\* both times, the second call issues no step and no seek, and leaves
\* current_index as the first call left it.
C4_SecondCallRepeatsFirst ==
    (callNo >= 2 /\ call.index = prev.index) =>
        /\ call.nStep = 0
        /\ call.nSeek = 0
        /\ (pc = "idle" => current_index = call.before /\ call.result = prev.result)

\* C4 amended: when the first call's seek succeeded, the second call issues no
\* step and no seek and leaves current_index at index; its outcome is the first
\* call's provided no wait on the instance has ended in a timeout or an error
\* message.
C4_SecondCallAfterSuccessfulSeek ==
    (callNo >= 2 /\ call.index = prev.index /\ SeekSucceeded(prev.result)) =>
        /\ call.nStep = 0
        /\ call.nSeek = 0
        /\ current_index = call.index
        /\ (pc = "idle" /\ clean => call.result = prev.result)

C4_Witness ==
    /\ callNo >= 2 /\ Returned /\ clean
    /\ call.index = prev.index /\ call.index > 0
    /\ prev.result = "Empty" /\ call.result = "Empty"

\* C5: a wait is bounded by its timeout: wait_async_done has never been blocked
\* for longer than TIMEOUT seconds.
C5_WaitBoundedByTimeout == pc = "wait" => elapsed <= TIMEOUT

\* C8: get_frame returns Empty exactly when its seek succeeded and the sample it
\* pulled carries no buffer; then current_index is index and the conversion was
\* not run; when the seek fails nothing is pulled and the seek's error is returned.
C8_EmptyOutcome ==
    Returned =>
        /\ (call.result = "Empty") <=>
              (call.seekRes = "ok" /\ call.pulled /\ call.gotSample /\ ~call.hadBuffer)
        /\ (call.result = "Empty" => current_index = call.index /\ ~call.converted)
        /\ (call.seekRes # "ok" => ~call.pulled /\ call.result = call.seekRes)

C8_Witness ==
    /\ Returned /\ call.result = "Empty" /\ call.nSeek = 1
    /\ current_index = call.index /\ ~call.converted

Converted == image.kind # "none"

\* The sample gets as far as the format check.
ReachesFormatCheck ==
    /\ sample.caps /\ sample.buffer /\ sample.copyOk /\ sample.structure
    /\ sample.hasW /\ sample.hasH /\ sample.hasF

\* C6 as claimed, for positive widths and heights: the conversion succeeds only
\* when the buffer holds exactly width * height * 3 bytes and fails with
\* BufferSizeMismatch for every other byte count, shorter or longer.
C6_ExactSizeOnly ==
    (Converted /\ sample.width >= 1 /\ sample.height >= 1) =>
        /\ (image.kind = "Image" => sample.size = sample.width * sample.height * 3)
        /\ (ReachesFormatCheck /\ sample.format = "RGB"
              /\ sample.size # sample.width * sample.height * 3
                => image.kind = "BufferSizeMismatch")

\* C6 amended: the conversion of an RGB sample succeeds exactly when the buffer
\* holds at least width * height * 3 bytes (width and height read as u32) and
\* fails with BufferSizeMismatch for every shorter buffer; an image it returns
\* has the caps' width and height and all of the buffer's bytes.
C6_SufficientSize ==
    Converted =>
        /\ (image.kind = "Image" =>
              /\ image.width = sample.width /\ image.height = sample.height
              /\ image.bytes = sample.size
              /\ (sample.width >= 0 /\ sample.height >= 0
                    => sample.width * sample.height * 3 <= sample.size)
              /\ (sample.width < 0 => sample.height = 0)
              /\ (sample.height < 0 => sample.width = 0))
        /\ (ReachesFormatCheck /\ sample.format = "RGB"
              /\ sample.width >= 0 /\ sample.height >= 0 =>
                 IF sample.width * sample.height * 3 <= sample.size
                 THEN image.kind = "Image"
                 ELSE image.kind = "BufferSizeMismatch")

C6_Witness ==
    /\ Converted /\ image.kind = "Image"
    /\ sample.width = 2 /\ sample.height = 2 /\ sample.size = 13

\* C7 as claimed, for the samples whose buffer copies in full and whose caps hold
\* a structure: every sample that has caps and a buffer and whose format is not
\* RGB is rejected with UnexpectedFormat.
C7_NonRgbIsUnexpectedFormat ==
    (Converted /\ sample.caps /\ sample.buffer /\ sample.copyOk /\ sample.structure
       /\ sample.hasF /\ sample.format # "RGB")
        => image.kind = "UnexpectedFormat"

\* C7 amended: every sample whose caps hold a structure with width, height and
\* format fields, whose buffer copies in full and whose format is not RGB is
\* rejected with UnexpectedFormat, whatever its width, height and size; and no
\* image comes from a sample whose format is not RGB.
C7_NonRgbRejected ==
    Converted =>
        /\ (ReachesFormatCheck /\ sample.format # "RGB" => image.kind = "UnexpectedFormat")
        /\ (image.kind = "Image" => sample.hasF /\ sample.format = "RGB")

C7_Witness ==
    /\ Converted /\ image.kind = "UnexpectedFormat"
    /\ sample.format = "BGR" /\ sample.width = 2 /\ sample.height = 2
    /\ sample.size = 12

\* C9: the frame count open computes is the floor of duration / per_frame:
\* per_frame * frames <= duration < per_frame * (frames + 1), for per_frame > 0.
C9_FrameCountIsFloor ==
    (pc = "opened" /\ per_frame > 0) =>
        /\ per_frame * frames <= duration
        /\ duration < per_frame * (frames + 1)

C9_Witness ==
    /\ pc = "opened" /\ per_frame = 5 /\ duration = 12 /\ frames = 2

\* C10: gstreamer::init runs at most once; no open goes on to construct its
\* pipeline before GST_INIT is complete; and if assume_gst_init returned before
\* any open was called, gstreamer::init is never run.
C10_InitAtMostOnce ==
    /\ initRuns <= 1
    /\ \A t \in Threads : thread[t] \in {"make", "constructed"} => once = "complete"
    /\ assumedFirst => initRuns = 0

C10_Witness ==
    /\ initRuns = 1
    /\ \E t, u \in Threads :
          /\ t # u
          /\ thread[t] = "constructed"
          /\ thread[u] = "constructed"
    /\ \E t \in Threads : thread[t] = "assumed"

\* The errors with which seek fails after it has issued, or tried to issue, a command.
CommandFailures == {"SeekRejected", "StepRejected", "PipelineError", "Timeout"}

\* C12: per_frame and frames are as open set them after any sequence of get_frame
\* calls, whatever their outcomes; len returns the frames open computed; and a
\* len call changes nothing of the VideoSequence.
C12_LengthFixedAtOpen ==
    /\ [](/\ per_frame = atOpen.per_frame
          /\ frames = atOpen.frames
          /\ (lenOut.called => lenOut.value = atOpen.frames))
    /\ [][(lenOut'.called /\ ~lenOut.called) => UNCHANGED seqVars]_vars

C12_Witness ==
    /\ callNo >= 2 /\ ~clean /\ current_index > 0 /\ frames > 1
    /\ lenOut.called /\ lenOut.value = frames

\* C13: seek(index) dispatches on the cursor alone: index < current_index goes to
\* raw_seek(index); index = current_index returns at once, with no command and no
\* wait; 0 < index - current_index <= 1 goes to step(index - current_index);
\* index - current_index > 1 goes to raw_seek(index); one branch is taken.
C13_SeekDispatch ==
    callNo >= 1 =>
        /\ (call.index < call.before => call.branch = "raw_seek")
        /\ (call.index = call.before =>
               call.branch = "noop" /\ call.nStep = 0 /\ call.nSeek = 0 /\ call.nWait = 0)
        /\ (call.index > call.before /\ call.index - call.before <= 1 =>
               call.branch = "step")
        /\ (call.index - call.before > 1 => call.branch = "raw_seek")
        /\ (call.branch = "raw_seek" =>
               call.nStep = 0 /\ (call.nSeek = 1 => call.seekTo = per_frame * call.index))
        /\ (call.branch = "step" =>
               call.nSeek = 0 /\ call.nStep = 1 /\ call.count = call.index - call.before)

C13_Witness ==
    /\ callNo >= 2 /\ call.before = 0 /\ call.index = 2
    /\ call.branch = "raw_seek" /\ call.nSeek = 1 /\ call.seekRes = "ok"

\* C14: current_index is written only once the wait of raw_seek or step has
\* returned Ok: while the command is in flight, and when it was rejected or the
\* wait ended in an error message or a timeout, current_index is what it was
\* before the call; on success raw_seek sets it to index and step(count) adds count.
C14_CursorWrittenAfterWait ==
    callNo >= 1 =>
        /\ (call.seekRes # "ok" => current_index = call.before)
        /\ (call.seekRes = "ok" /\ call.branch = "raw_seek" =>
               call.nWait = 1 /\ current_index = call.index)
        /\ (call.seekRes = "ok" /\ call.branch = "step" =>
               call.nWait = 1 /\ current_index = call.before + call.count)
        /\ (call.branch = "noop" => current_index = call.before)

C14_Witness ==
    /\ Returned /\ call.result = "PipelineError" /\ call.branch = "raw_seek"
    /\ call.before = 2 /\ call.index = 0 /\ current_index = 2

\* C15 as claimed: raw_seek(index) fails with IndexOutOfRange exactly when
\* index > frames, and then issues no seek and does not wait; for every
\* index <= frames it issues one seek to per_frame * index and then waits.
C15_RawSeekAlwaysWaits ==
    (callNo >= 1 /\ call.branch = "raw_seek") =>
        /\ (call.seekRes = "IndexOutOfRange" <=> call.index > frames)
        /\ (call.index > frames => call.nSeek = 0 /\ call.nWait = 0)
        /\ (call.index <= frames =>
               /\ call.nSeek = 1 /\ call.seekTo = per_frame * call.index
               /\ call.nWait = 1)

\* C15 amended: the same, except that for index <= frames raw_seek waits only
\* when the pipeline has taken the seek; a seek that is rejected fails the call
\* without a wait.
C15_RawSeekWaitsIfAccepted ==
    (callNo >= 1 /\ call.branch = "raw_seek") =>
        /\ (call.seekRes = "IndexOutOfRange" <=> call.index > frames)
        /\ (call.index > frames => call.nSeek = 0 /\ call.nWait = 0)
        /\ (call.index <= frames =>
               /\ call.nSeek = 1 /\ call.seekTo = per_frame * call.index
               /\ (call.nWait = 1 <=> call.seekRes # "SeekRejected"))

C15_Witness ==
    /\ callNo >= 1 /\ call.branch = "raw_seek" /\ call.index = frames /\ frames = 2
    /\ call.nSeek = 1 /\ call.seekTo = 2 /\ call.nWait = 1 /\ call.seekRes = "ok"

\* C18: a get_frame call issues at most one command, a step or a seek, and waits
\* at most once; after a rejected command, an error message or a timeout it
\* returns that failure, with no further command, no further wait and no pull.
C18_NoRetry ==
    callNo >= 1 =>
        /\ call.nStep + call.nSeek <= 1
        /\ call.nWait <= call.nStep + call.nSeek
        /\ (call.seekRes \in {"SeekRejected", "StepRejected"} => call.nWait = 0)
        /\ (call.seekRes \in CommandFailures =>
               pc = "idle" /\ ~call.pulled /\ call.result = call.seekRes)

C18_Witness ==
    /\ Returned /\ call.result = "PipelineError" /\ call.nStep = 1 /\ call.nWait = 1
    /\ ~call.pulled /\ callNo >= 2

\* C20: in every state reached from a successful open by get_frame calls,
\* 0 <= current_index <= frames.
C20_CursorInRange == current_index >= 0 /\ current_index <= frames

\* open has returned an error, or the VideoSequence it returned has been dropped.
Exited == pc \in {"failed", "dropped", "drop_panicked"}

Has(step) == \E i \in 1..Len(steps) : steps[i] = step

\* C11 as claimed: once open has made the pipeline, every exit, by an error return
\* of open or by the drop of the VideoSequence, has set the pipeline to Null
\* exactly once, and no pipeline or sink operation is issued after that.
C11_StoppedOnceOnEveryExit ==
    /\ ~lateOps
    /\ (Exited /\ Has("configure")) => nullSets = 1

\* C11 amended: once open has built its VideoSequenceInner, every such exit has
\* set the pipeline to Null exactly once; an error return between the making of
\* the pipeline and the building of the VideoSequenceInner sets no state at all,
\* the pipeline never having been started; the pipeline is not set to Null before
\* an exit, never twice, and no operation is issued after it.
C11_StoppedOnceAfterInnerBuilt ==
    /\ ~lateOps
    /\ nullSets <= 1
    /\ (Exited /\ Has("set_state")) => nullSets = 1
    /\ (Exited /\ ~Has("set_state")) => nullSets = 0 /\ answer = "none"
    /\ (~Exited /\ pc # "panicked") => nullSets = 0

C11_Witness ==
    /\ pc = "failed" /\ outcome = "Timeout" /\ Has("raw_seek")
    /\ nullSets = 1 /\ ~lateOps

\* The messages the running (or last) wait_async_done has been handed.
CurrentWait == SubSeq(popped, waitFrom + 1, Len(popped))

Decides(m) == m.type \in {"AsyncDone", "Error"}

\* C16: wait_async_done takes the messages of the bus in order; the first
\* ASYNC_DONE (Ok) or error (Err) it is handed decides its result; every message
\* before that one is taken and decides nothing; the messages after it stay on
\* the bus; and it returns Timeout only when timed_pop yields nothing.
C16_WaitDecidedByFirstDecider ==
    /\ posted = popped \o bus
    /\ waitRes.of # "none" =>
          LET w == CurrentWait IN
          /\ \A i \in 1..(Len(w) - 1) : ~Decides(w[i])
          /\ (waitRes.result = "Ok" => w # <<>> /\ w[Len(w)].type = "AsyncDone")
          /\ (waitRes.result = "PipelineError" => w # <<>> /\ w[Len(w)].type = "Error")
          /\ (waitRes.result = "Timeout" =>
                bus = <<>> /\ \A i \in 1..Len(w) : ~Decides(w[i]))
          /\ (waitRes.result = "none" =>
                pc \in {"wait_paused", "wait_seek"} /\ \A i \in 1..Len(w) : ~Decides(w[i]))

C16_Witness ==
    /\ waitRes = [of |-> "raw_seek", result |-> "Ok"]
    /\ Len(CurrentWait) = 2 /\ CurrentWait[1].type = "Other"
    /\ bus # <<>> /\ Head(bus).type = "Error"

\* C17: set_state_with_timeout maps the pipeline's answer: Success returns Ok
\* without a timed_pop; Async returns what wait_async_done returns; NoPreroll
\* fails ("live sources not supported") without a timed_pop; a failed request
\* fails without a timed_pop.
C17_SetStateAnswerMapped ==
    /\ (answer = "none" => setRes = "none" /\ reads = 0)
    /\ (answer = "Success" => setRes = "Ok" /\ reads = 0)
    /\ (answer = "NoPreroll" =>
          setRes = "UnsupportedSource" /\ reads = 0 /\ outcome = "UnsupportedSource")
    /\ (answer = "Failure" =>
          setRes = "StateChangeError" /\ reads = 0 /\ outcome = "StateChangeError")
    /\ (answer = "Async" =>
          /\ (setRes = "none" <=> pc = "wait_paused")
          /\ (waitRes.of = "set_state" => setRes = waitRes.result)
          /\ (setRes # "none" => reads >= 1))

C17_Witness ==
    /\ answer = "Async" /\ setRes = "Timeout" /\ reads = 2
    /\ waitRes = [of |-> "set_state", result |-> "Timeout"] /\ outcome = "Timeout"

\* The errors each step of open can end in.
StepErrors(step) ==
    CASE step = "resolve" -> {"InvalidPath"}
      [] step = "init" -> {"panic"}
      [] step = "make" -> {"MakeFailed"}
      [] step = "configure" -> {"ConfigureFailed", "panic"}
      [] step = "set_state" ->
            {"UnsupportedSource", "StateChangeError", "PipelineError", "Timeout"}
      [] step = "pull_preroll" -> {"PullFailed"}
      [] step = "framerate" -> {"NoData", "UnknownFrameRate", "panic"}
      [] step = "query_duration" -> {"UnknownDuration", "panic"}
      [] step = "raw_seek" -> {"SeekRejected", "PipelineError", "Timeout"}

\* C19: open carries out its steps in the order of OpenOrder; the first step that
\* fails ends open with that step's error and no later step is carried out (a
\* path that does not resolve fails before gstreamer is initialized and before a
\* pipeline is made); open returns a VideoSequence only when the wait of
\* raw_seek(0) has returned Ok, and then current_index = 0.
C19_OpenStepOrder ==
    /\ steps = SubSeq(OpenOrder, 1, Len(steps))
    /\ (outcome = "none" => pc \notin {"opened", "failed", "panicked", "dropped",
                                        "drop_panicked"})
    /\ (outcome = "Ok" =>
          /\ steps = OpenOrder
          /\ waitRes = [of |-> "raw_seek", result |-> "Ok"]
          /\ current_index = 0
          /\ pc \in {"opened", "dropped", "drop_panicked"})
    /\ (outcome \notin {"none", "Ok"} =>
          /\ steps # <<>>
          /\ outcome \in StepErrors(steps[Len(steps)])
          /\ pc \in {"failed", "panicked", "drop_panicked"})
    /\ (outcome = "InvalidPath" =>
          steps = <<"resolve">> /\ initRuns = 0 /\ nullSets = 0 /\ ~lateOps)

C19_Witness ==
    /\ outcome = "Ok" /\ pc = "opened" /\ answer = "Async"
    /\ frames = 2 /\ current_index = 0 /\ steps = OpenOrder
====
